---- MODULE Spec2Model ----
(***************************************************************************)
(* Test adapters of vscode-python: the pytest plugin (vscode_pytest), the  *)
(* draft pytest plugin (pytest-vscode-integration) and the unittest        *)
(* execution adapter (unittestadapter/execution.py).                       *)
(*                                                                         *)
(* Conventions.  A filesystem path is a sequence of segments; str(path)    *)
(* and os.fsdecode(path) are Str(path).  Python objects that are mutated   *)
(* after creation (the tree's dicts) live in the heap `nodes`; a reference *)
(* is an index into it.  An insertion-ordered dict is a sequence of        *)
(* [key, val] entries.  Optional values are sequences of length <= 1.      *)
(***************************************************************************)
EXTENDS Integers, Sequences, FiniteSets, TLC

\* ------------------------------------------------------------------ bounds

\* Most test cases a session collects.
MaxCases == 2
\* Deepest directory nesting of a test file below the session root.
MaxDepth == 2
\* Largest line number the framework reports (0-based).
MaxLine == 0

DirNames == {"a", "b"}
FileNames == {"f.py", "g.py"}
ClassNames == {"C"}

\* ------------------------------------------------------------------ paths

\* session.path
SessionPath == <<"root">>

\* pathlib: path.name
Name(p) == p[Len(p)]

\* pathlib: path.parent
Parent(p) == SubSeq(p, 1, Len(p) - 1)

RECURSIVE Str(_)
\* str(path) / os.fsdecode(path): the segments joined, each preceded by "/"
Str(p) == IF p = <<>> THEN "" ELSE Str(Parent(p)) \o "/" \o Name(p)

RECURSIVE RelStr(_)
\* the posix form of a path relative to the session root (start of a nodeid)
RelStr(p) ==
    IF Len(p) <= Len(SessionPath) THEN ""
    ELSE IF Len(p) = Len(SessionPath) + 1 THEN Name(p)
    ELSE RelStr(Parent(p)) \o "/" \o Name(p)

RECURSIVE DirsOfLen(_, _)
\* the directory chains of length n over the names D
DirsOfLen(D, n) ==
    IF n = 0 THEN {<<>>}
    ELSE {Append(d, x) : d \in DirsOfLen(D, n - 1), x \in D}

\* the test files below the session root, in directories named from D
ModulePaths(D, F) ==
    {SessionPath \o d \o <<f>> :
        d \in UNION {DirsOfLen(D, n) : n \in 0..MaxDepth}, f \in F}

\* ------------------------------------------------------- framework handles

\* a pytest.Module collector for the file at path p
Module(p) == [kind |-> "Module", name |-> Name(p), path |-> p, nodeid |-> RelStr(p)]

\* a pytest.Class collector named c inside the module at path p
Class(p, c) ==
    [kind |-> "Class", name |-> c, path |-> p, nodeid |-> RelStr(p) \o "::" \o c]

\* a parent that is neither a Module nor a Class (a malformed parent chain)
Other(p) == [kind |-> "Other", name |-> Name(p), path |-> p, nodeid |-> RelStr(p)]

\* item.location[1]: absent, or a 0-based line number
Locations == {<<>>} \cup {<<n>> : n \in 0..MaxLine}

\* a collected item: a function or a doctest, under the given parent
Item(parent, n, loc, isDoc) ==
    [name |-> n, path |-> parent.path, location |-> loc,
     nodeid |-> parent.nodeid \o "::" \o n, doctest |-> isDoc, parent |-> parent]

\* the parents an item of the module at p can have
FunctionParents(p) == {Module(p)} \cup {Class(p, c) : c \in ClassNames}
DoctestParents(p) == {Module(p), Other(p)}

\* the name of the i-th collected item (node ids are unique within a session)
TestName(i) == "t" \o ToString(i)

\* the items a session over the files `paths` may collect as its i-th
CasesOf(paths, i) ==
    UNION {
        {Item(par, TestName(i), loc, FALSE) : par \in FunctionParents(p), loc \in Locations}
        \cup {Item(par, TestName(i), loc, TRUE) : par \in DoctestParents(p), loc \in Locations}
        : p \in paths}

\* every item the tree builder is given as its i-th
TestCases(i) == CasesOf(ModulePaths(DirNames, FileNames), i)

\* ------------------------------------------------------------------- dicts

Keys(d) == {d[i].key : i \in 1..Len(d)}
Has(d, k) == k \in Keys(d)
Get(d, k) == d[CHOOSE i \in 1..Len(d) : d[i].key = k].val
Put(d, k, v) ==
    IF Has(d, k) THEN [i \in 1..Len(d) |-> IF d[i].key = k THEN [key |-> k, val |-> v] ELSE d[i]]
    ELSE Append(d, [key |-> k, val |-> v])
Values(d) == [i \in 1..Len(d) |-> d[i].val]
Range(s) == {s[i] : i \in 1..Len(s)}

\* ---------------------------------------------------------- node factories

\* create_test_node without the `+ 1` of line 216
create_test_node_NoIncrement(test_case) ==
    [name |-> test_case.name,
     path |-> Str(test_case.path),
     lineno |-> IF test_case.location = <<>> THEN ""
                ELSE ToString(test_case.location[1]),
     type_ |-> "test",
     id_ |-> test_case.nodeid,
     runID |-> test_case.nodeid]

\* create_test_node(test_case), lines 206-227
create_test_node(test_case) ==
    [name |-> test_case.name,
     path |-> Str(test_case.path),
     lineno |-> IF test_case.location = <<>> THEN ""
                ELSE ToString(test_case.location[1] + 1),
     type_ |-> "test",
     id_ |-> test_case.nodeid,
     runID |-> test_case.nodeid]

create_session_node ==
    [name |-> Name(SessionPath), path |-> Str(SessionPath), type_ |-> "folder",
     children |-> <<>>, id_ |-> Str(SessionPath)]

create_class_node(class_module) ==
    [name |-> class_module.name, path |-> Str(class_module.path), type_ |-> "class",
     children |-> <<>>, id_ |-> class_module.nodeid]

create_file_node(file_module) ==
    [name |-> Name(file_module.path), path |-> Str(file_module.path), type_ |-> "file",
     id_ |-> Str(file_module.path), children |-> <<>>]

create_doc_file_node(file_module) ==
    [name |-> Name(file_module.path), path |-> Str(file_module.path), type_ |-> "doc_file",
     id_ |-> Str(file_module.path), children |-> <<>>]

create_folder_node(folderName, path_iterator) ==
    [name |-> folderName, path |-> Str(path_iterator), type_ |-> "folder",
     id_ |-> Str(path_iterator), children |-> <<>>]

\* --------------------------------------------------------------- the heap

\* parent["children"].append(child)
AppendChild(heap, parent, child) ==
    [heap EXCEPT ![parent] = [@ EXCEPT !.children = Append(@, child)]]

\* `child in parent["children"]`.  Python compares by identity, then by value;
\* two distinct nodes the builder creates always differ in name or path, so
\* the comparison is by reference.
IsChild(heap, parent, child) == child \in Range(heap[parent].children)

\* ------------------------------------------------------- build_test_tree

\* The builder's locals.  nodes[1] is session_node.
BuilderInit ==
    [nodes |-> <<create_session_node>>,
     file_nodes_dict |-> <<>>,
     class_nodes_dict |-> <<>>]

\* try: file_nodes_dict[module] / except KeyError: create and remember it;
\* then file_node["children"].append(child)
AttachToFile(b, module, fresh, child) ==
    LET known == Has(b.file_nodes_dict, module.path)
        heap == IF known THEN b.nodes ELSE Append(b.nodes, fresh)
        file == IF known THEN Get(b.file_nodes_dict, module.path) ELSE Len(heap)
    IN [b EXCEPT !.nodes = AppendChild(heap, file, child),
                 !.file_nodes_dict = Put(@, module.path, file)]

\* the else branch of the loop body: the parent should be a pytest.Class
AttachToClass(b, test_case, test_node) ==
    LET cls == test_case.parent
        knownC == Has(b.class_nodes_dict, cls.name)
        heap1 == IF knownC THEN b.nodes ELSE Append(b.nodes, create_class_node(cls))
        test_class_node == IF knownC THEN Get(b.class_nodes_dict, cls.name) ELSE Len(heap1)
        heap2 == AppendChild(heap1, test_class_node, test_node)
        parent_module == Module(cls.path)
        knownF == Has(b.file_nodes_dict, parent_module.path)
        heap3 == IF knownF THEN heap2 ELSE Append(heap2, create_file_node(parent_module))
        test_file_node == IF knownF THEN Get(b.file_nodes_dict, parent_module.path) ELSE Len(heap3)
        heap4 == AppendChild(heap3, test_file_node, test_class_node)
        heap5 == IF ~IsChild(heap4, test_file_node, test_class_node)
                 THEN AppendChild(heap4, test_file_node, test_class_node)
                 ELSE heap4
    IN [nodes |-> heap5,
        file_nodes_dict |-> Put(b.file_nodes_dict, parent_module.path, test_file_node),
        class_nodes_dict |-> Put(b.class_nodes_dict, cls.name, test_class_node)]

\* one iteration of `for test_case in session.items`
LoopBody(b, test_case) ==
    LET b1 == [b EXCEPT !.nodes = Append(@, create_test_node(test_case))]
        test_node == Len(b1.nodes)
    IN IF test_case.doctest
       THEN IF test_case.parent.kind = "Module"
            THEN AttachToFile(b1, test_case.parent, create_doc_file_node(test_case.parent), test_node)
            ELSE b1
       ELSE IF test_case.parent.kind = "Module"
            THEN AttachToFile(b1, test_case.parent, create_file_node(test_case.parent), test_node)
            ELSE AttachToClass(b1, test_case, test_node)

RECURSIVE NestedFolders(_, _, _, _)
\* the while loop of build_nested_folders, from iterator_path upward
NestedFolders(heap, created, prev_folder_node, iterator_path) ==
    IF iterator_path = SessionPath
    THEN [nodes |-> heap, created |-> created, root |-> prev_folder_node]
    ELSE LET curr_folder_name == Name(iterator_path)
             known == Has(created, curr_folder_name)
             heap1 == IF known THEN heap
                      ELSE Append(heap, create_folder_node(curr_folder_name, iterator_path))
             curr_folder_node == IF known THEN Get(created, curr_folder_name) ELSE Len(heap1)
             heap2 == IF ~IsChild(heap1, curr_folder_node, prev_folder_node)
                      THEN AppendChild(heap1, curr_folder_node, prev_folder_node)
                      ELSE heap1
         IN NestedFolders(heap2, Put(created, curr_folder_name, curr_folder_node),
                          curr_folder_node, Parent(iterator_path))

build_nested_folders(heap, file_module, file_node, created_files_folders_dict) ==
    NestedFolders(heap, created_files_folders_dict, file_node, Parent(file_module))

\* ------------------------------------------------------ reading the tree

\* the children list of a node; a test item has none
ChildrenOf(heap, r) == IF heap[r].type_ = "test" THEN <<>> ELSE heap[r].children

\* Longest root-to-leaf walk of a well-formed tree: the folders, the file, the
\* class and the test.
TreeFuel == MaxDepth + 3

RECURSIVE Occurrences(_, _, _)
\* The positions of the tree unfolded below r, as the serializer walks it: a
\* position is the sequence of child indexes leading to it, followed for at
\* most `fuel` steps.
Occurrences(heap, r, fuel) ==
    {<<>>} \cup
    IF fuel = 0 THEN {}
    ELSE UNION {{<<i>> \o o : o \in Occurrences(heap, ChildrenOf(heap, r)[i], fuel - 1)} :
                i \in 1..Len(ChildrenOf(heap, r))}

RECURSIVE NodeAt(_, _, _)
\* the node at a position below r
NodeAt(heap, r, o) ==
    IF o = <<>> THEN r ELSE NodeAt(heap, ChildrenOf(heap, r)[o[1]], Tail(o))

RECURSIVE Closure(_, _)
\* the nodes reachable from the set `seen` by following children
Closure(heap, seen) ==
    LET next == seen \cup UNION {Range(ChildrenOf(heap, r)) : r \in seen}
    IN IF next = seen THEN seen ELSE Closure(heap, next)

\* the proper descendants of r
Descendants(heap, r) == Closure(heap, Range(ChildrenOf(heap, r)))

\* one iteration of `for file_module, file_node in file_nodes_dict.items()`
\* (lines 160-168)
FileLoopBody(heap, created, session_children, entry) ==
    LET r == build_nested_folders(heap, entry.key, entry.val, created)
        root_id == r.nodes[r.root].id_
    IN [nodes |-> r.nodes,
        created |-> r.created,
        session_children |-> IF root_id # "" /\ ~Has(session_children, root_id)
                             THEN Put(session_children, root_id, r.root)
                             ELSE session_children]

RECURSIVE CasesLoop(_, _)
\* `for test_case in session.items` (lines 124-158)
CasesLoop(b, its) ==
    IF its = <<>> THEN b ELSE CasesLoop(LoopBody(b, Head(its)), Tail(its))

RECURSIVE FilesLoop(_, _, _)
\* the loop of lines 160-168 from entry i on
FilesLoop(st, file_dict, i) ==
    IF i > Len(file_dict) THEN st
    ELSE FilesLoop(FileLoopBody(st.nodes, st.created, st.session_children, file_dict[i]),
                   file_dict, i + 1)

\* build_test_tree(session) as one call: the heap, in which node 1 is the
\* session node returned, and the errors list
build_test_tree(its) ==
    LET b == CasesLoop(BuilderInit, its)
        st == FilesLoop([nodes |-> b.nodes, created |-> <<>>, session_children |-> <<>>],
                        b.file_nodes_dict, 1)
    IN [nodes |-> [st.nodes EXCEPT ![1] =
                      [@ EXCEPT !.children = Values(st.session_children)]],
        errors |-> <<>>]

\* ------------------------------------------------------------------ state

VARIABLES
    \* build_test_tree
    items,                       \* session.items, as far as the loop has read them
    nodes,                       \* the heap of TestNode / TestItem dicts
    file_nodes_dict,
    class_nodes_dict,
    created_files_folders_dict,
    session_children_dict,
    errors,                      \* build_test_tree's errors list
    pc,                          \* "cases", "files", "done"
    file_index,                  \* position of the loop over file_nodes_dict.items()
    \* unittestadapter/execution.py
    environ,                     \* os.environ: RUN_TEST_IDS_PIPE, TEST_RUN_PIPE
    upc,                         \* position of __main__
    test_ids_from_buffer,        \* raw_json["params"]
    run_index,                   \* the test of the tailored suite that is running
    formatted,                   \* UnittestTestResult.formatted
    callbacks,                   \* the outcome callbacks the runner has made
    pipe_io,                     \* what was done to the named pipes, in order
    printed,                     \* lines printed to stdout / stderr
    raised,                      \* the exception that ended __main__, if any
    run_error,                   \* the error run_tests caught, if any
    \* the pytest plugins and their reporting client
    os_environ,                  \* os.environ: TEST_PORT, TEST_UUID
    session_items,               \* session.items of the pytest session
    collectonly,                 \* the session only collects (--collect-only)
    report_cursor,               \* the item and phase the runner reports next
    testsfailed,                 \* session.testsfailed > 0
    collected_tests,             \* the module global collected_tests
    ppc,                         \* "running" or "finished"
    net,                         \* what was done to the network, in order
    calls,                       \* the post routines called, with their arguments
    py_raised                    \* the exception the last hook or post raised, if any

treeVars ==
    <<items, nodes, file_nodes_dict, class_nodes_dict, created_files_folders_dict,
      session_children_dict, errors, pc, file_index>>

unitVars ==
    <<environ, upc, test_ids_from_buffer, run_index, formatted, callbacks, pipe_io,
      printed, raised, run_error>>

pyVars ==
    <<os_environ, session_items, collectonly, report_cursor, testsfailed, collected_tests,
      ppc, net, calls, py_raised>>

vars == <<treeVars, unitVars, pyVars>>

\* what an action of one program leaves alone
notTree == <<unitVars, pyVars>>
notUnit == <<treeVars, pyVars>>
notPy == <<treeVars, unitVars>>

\* ------------------------------------------- build_test_tree, step by step

\* lines 118-122: the locals before the first loop
TreeInit ==
    /\ items = <<>>
    /\ nodes = BuilderInit.nodes
    /\ file_nodes_dict = BuilderInit.file_nodes_dict
    /\ class_nodes_dict = BuilderInit.class_nodes_dict
    /\ created_files_folders_dict = <<>>
    /\ session_children_dict = <<>>
    /\ errors = <<>>
    /\ pc = "cases"
    /\ file_index = 1

\* one iteration of `for test_case in session.items` (lines 124-158)
ForTestCase ==
    /\ pc = "cases"
    /\ Len(items) < MaxCases
    /\ \E test_case \in TestCases(Len(items) + 1) :
          LET b == LoopBody([nodes |-> nodes, file_nodes_dict |-> file_nodes_dict,
                             class_nodes_dict |-> class_nodes_dict], test_case)
          IN /\ items' = Append(items, test_case)
             /\ nodes' = b.nodes
             /\ file_nodes_dict' = b.file_nodes_dict
             /\ class_nodes_dict' = b.class_nodes_dict
    /\ UNCHANGED <<created_files_folders_dict, session_children_dict, errors, pc, file_index>>
    /\ UNCHANGED notTree

\* session.items is exhausted (line 159)
EndOfItems ==
    /\ pc = "cases"
    /\ pc' = "files"
    /\ UNCHANGED <<items, nodes, file_nodes_dict, class_nodes_dict,
                   created_files_folders_dict, session_children_dict, errors, file_index>>
    /\ UNCHANGED notTree

\* one iteration of `for file_module, file_node in file_nodes_dict.items()`
\* (lines 160-168)
ForFileModule ==
    /\ pc = "files"
    /\ file_index <= Len(file_nodes_dict)
    /\ LET r == FileLoopBody(nodes, created_files_folders_dict, session_children_dict,
                             file_nodes_dict[file_index])
       IN /\ nodes' = r.nodes
          /\ created_files_folders_dict' = r.created
          /\ session_children_dict' = r.session_children
    /\ file_index' = file_index + 1
    /\ UNCHANGED <<items, file_nodes_dict, class_nodes_dict, errors, pc>>
    /\ UNCHANGED notTree

\* lines 169-170: session_node["children"] = ...; return session_node, errors
ReturnSessionNode ==
    /\ pc = "files"
    /\ file_index > Len(file_nodes_dict)
    /\ nodes' = [nodes EXCEPT ![1] = [@ EXCEPT !.children = Values(session_children_dict)]]
    /\ pc' = "done"
    /\ UNCHANGED <<items, file_nodes_dict, class_nodes_dict, created_files_folders_dict,
                   session_children_dict, errors, file_index>>
    /\ UNCHANGED notTree

TreeNext == ForTestCase \/ EndOfItems \/ ForFileModule \/ ReturnSessionNode

\* ----------------------------------------------- unittestadapter/execution

\* Most test ids the editor asks to run.
MaxTestIds == 2
\* Most outcome callbacks the runner makes in a run.
MaxCallbacks == 3

\* test.id() of the i-th requested test
TestId(i) == "m.T.test_" \o ToString(i)

\* the sub-test descriptions a test may report (unittest: _subDescription())
SubDescriptions == {"(i=0)", "(i=1)"}

\* unittest's _SubTest.id(): "{} {}".format(test_case.id(), _subDescription())
SubTestId(test_id, description) == test_id \o " " \o description

\* the lists of ids the editor may write to RUN_TEST_IDS_PIPE
ParamChoices == {[i \in 1..n |-> TestId(i)] : n \in 0..MaxTestIds}

\* the values an environment variable may have: unset or set
PipeNames(name) == {<<>>, <<name>>}

\* os.path.abspath(START_DIR)
UnitCwd == "/w"

\* an exc_info triple, absent or present
ErrorInfos == {<<>>, <<"AssertionError boom">>}

\* send_run_data putting every record under raw_data["test"], sub-test or not
send_run_data_KeyedByTest(raw_data) ==
    LET status == raw_data.outcome
        test_id == raw_data.test
    IN [cwd |-> UnitCwd, status |-> status,
        result |-> <<[key |-> test_id, val |-> raw_data]>>]

\* send_run_data (lines 222-232): the payload handed to send_post_request
send_run_data(raw_data) ==
    LET status == raw_data.outcome
        test_id == IF raw_data.subtest # <<>> THEN raw_data.subtest[1] ELSE raw_data.test
    IN [cwd |-> UnitCwd, status |-> status,
        result |-> <<[key |-> test_id, val |-> raw_data]>>]

\* send_post_request(payload, test_run_pipe) of pvsc_utils: one write to the pipe
send_post_request(io, payload, test_run_pipe) ==
    Append(io, [op |-> "send", pipe |-> test_run_pipe, data |-> payload])

\* formatResult storing every record under test.id(), sub-test or not
formatResult_KeyedByTest(fmt, io, env, test, outcome, error, subtest) ==
    LET message == IF error # <<>> THEN error[1] ELSE ""
        tb == IF error # <<>> THEN <<"Traceback " \o error[1]>> ELSE <<>>
        result == [test |-> test, outcome |-> outcome, message |-> message,
                   traceback |-> tb, subtest |-> subtest]
        test_run_pipe == env.TEST_RUN_PIPE
    IN [formatted |-> Put(fmt, test, result),
        io |-> IF test_run_pipe = <<>> THEN io
               ELSE send_post_request(io, send_run_data(result), test_run_pipe[1]),
        raise |-> test_run_pipe = <<>>,
        printed |-> IF test_run_pipe = <<>>
                    THEN <<"UNITTEST ERROR: TEST_RUN_PIPE is not set at the time of unittest trying to send data. ">>
                    ELSE <<>>]

\* UnittestTestResult.formatResult (lines 103-146).  Returns the recorder's map,
\* the pipe traffic and whether VSCodeUnittestError was raised.
formatResult(fmt, io, env, test, outcome, error, subtest) ==
    LET message == IF error # <<>> THEN error[1] ELSE ""
        tb == IF error # <<>> THEN <<"Traceback " \o error[1]>> ELSE <<>>
        test_id == IF subtest # <<>> THEN subtest[1] ELSE test
        result == [test |-> test, outcome |-> outcome, message |-> message,
                   traceback |-> tb, subtest |-> subtest]
        test_run_pipe == env.TEST_RUN_PIPE
    IN [formatted |-> Put(fmt, test_id, result),
        io |-> IF test_run_pipe = <<>> THEN io
               ELSE send_post_request(io, send_run_data(result), test_run_pipe[1]),
        raise |-> test_run_pipe = <<>>,
        printed |-> IF test_run_pipe = <<>>
                    THEN <<"UNITTEST ERROR: TEST_RUN_PIPE is not set at the time of unittest trying to send data. ">>
                    ELSE <<>>]

\* the adapter's globals before __main__ runs
UnitGlobals ==
    /\ upc = "start"
    /\ test_ids_from_buffer = <<>>
    /\ run_index = 1
    /\ formatted = <<>>
    /\ callbacks = <<>>
    /\ pipe_io = <<>>
    /\ printed = <<>>
    /\ raised = <<>>
    /\ run_error = <<>>

\* the process starts with either pipe variable set or unset
UnitInit ==
    /\ environ \in [RUN_TEST_IDS_PIPE : PipeNames("ids_pipe"), TEST_RUN_PIPE : PipeNames("run_pipe")]
    /\ UnitGlobals

\* the adapter is not run
UnitIdle ==
    /\ environ = [RUN_TEST_IDS_PIPE |-> <<>>, TEST_RUN_PIPE |-> <<>>]
    /\ UnitGlobals

\* lines 252-255: the two checks of the environment, which only print
EnvErrors ==
    (IF environ.RUN_TEST_IDS_PIPE = <<>>
     THEN <<"Error[vscode-unittest]: RUN_TEST_IDS_PIPE env var is not set.">> ELSE <<>>)
    \o (IF environ.TEST_RUN_PIPE = <<>>
        THEN <<"Error[vscode-unittest]: TEST_RUN_PIPE env var is not set.">> ELSE <<>>)

\* __main__, lines 249-285, RUN_TEST_IDS_PIPE unset: PipeManager(None) cannot
\* open anything; the error it raises ends the program.
MainNoIdsPipe ==
    /\ upc = "start"
    /\ environ.RUN_TEST_IDS_PIPE = <<>>
    /\ printed' = printed \o EnvErrors
    /\ raised' = <<"PipeManager: no pipe name">>
    /\ upc' = "raised"
    /\ UNCHANGED <<environ, test_ids_from_buffer, run_index, formatted, callbacks, pipe_io,
                   run_error>>
    /\ UNCHANGED notUnit

\* __main__, lines 249-285: connecting to RUN_TEST_IDS_PIPE fails (socket.error)
MainIdsPipeError ==
    /\ upc = "start"
    /\ environ.RUN_TEST_IDS_PIPE # <<>>
    /\ printed' = printed \o EnvErrors \o <<"Error: Could not connect to RUN_TEST_IDS_PIPE">>
    /\ pipe_io' = Append(pipe_io, [op |-> "open", pipe |-> environ.RUN_TEST_IDS_PIPE[1],
                                   data |-> "refused"])
    /\ raised' = <<"VSCodeUnittestError: Error: Could not connect to RUN_TEST_IDS_PIPE">>
    /\ upc' = "raised"
    /\ UNCHANGED <<environ, test_ids_from_buffer, run_index, formatted, callbacks, run_error>>
    /\ UNCHANGED notUnit

\* __main__, lines 249-288: the pipe is opened and read until the buffer parses
\* as a JSON-RPC request; its params are the test ids.
MainReadTestIds ==
    /\ upc = "start"
    /\ environ.RUN_TEST_IDS_PIPE # <<>>
    /\ \E params \in ParamChoices :
          /\ test_ids_from_buffer' = params
          /\ pipe_io' = pipe_io \o
                <<[op |-> "open", pipe |-> environ.RUN_TEST_IDS_PIPE[1], data |-> "connected"],
                  [op |-> "read", pipe |-> environ.RUN_TEST_IDS_PIPE[1], data |-> params]>>
    /\ printed' = printed \o EnvErrors \o <<"Received JSON data in run">>
    /\ upc' = "have_ids"
    /\ UNCHANGED <<environ, run_index, formatted, callbacks, raised, run_error>>
    /\ UNCHANGED notUnit

\* __main__, lines 259-288: the pipe closes before a whole request arrived;
\* raw_json is unbound at line 288
MainReadEOF ==
    /\ upc = "start"
    /\ environ.RUN_TEST_IDS_PIPE # <<>>
    /\ pipe_io' = pipe_io \o
          <<[op |-> "open", pipe |-> environ.RUN_TEST_IDS_PIPE[1], data |-> "connected"],
            [op |-> "read", pipe |-> environ.RUN_TEST_IDS_PIPE[1], data |-> "eof"]>>
    /\ printed' = printed \o EnvErrors
    /\ raised' = <<"NameError: name 'raw_json' is not defined">>
    /\ upc' = "raised"
    /\ UNCHANGED <<environ, test_ids_from_buffer, run_index, formatted, callbacks, run_error>>
    /\ UNCHANGED notUnit

\* what send_post_request does for __main__: without a pipe name it raises
\* before writing anything
MainSend(payload, next) ==
    IF environ.TEST_RUN_PIPE = <<>>
    THEN /\ raised' = <<"VSCodeUnittestError: TEST_RUN_PIPE is not set">>
         /\ upc' = "raised"
         /\ UNCHANGED pipe_io
    ELSE /\ pipe_io' = send_post_request(pipe_io, payload, environ.TEST_RUN_PIPE[1])
         /\ upc' = next
         /\ UNCHANGED raised

\* __main__, lines 300-310: no test ids were received
MainNoTestIds ==
    /\ upc = "have_ids"
    /\ test_ids_from_buffer = <<>>
    /\ MainSend([cwd |-> UnitCwd, status |-> "error",
                 error |-> "No test ids received from buffer", result |-> <<>>], "eot")
    /\ UNCHANGED <<environ, test_ids_from_buffer, run_index, formatted, callbacks, printed,
                   run_error>>
    /\ UNCHANGED notUnit

\* run_tests, lines 163-200: the suite is tailored and the runner starts with
\* a fresh UnittestTestResult
RunTestsStart ==
    /\ upc = "have_ids"
    /\ test_ids_from_buffer # <<>>
    /\ formatted' = <<>>
    /\ run_index' = 0
    /\ upc' = "running"
    /\ UNCHANGED <<environ, test_ids_from_buffer, callbacks, pipe_io, printed, raised, run_error>>
    /\ UNCHANGED notUnit

\* startTest (lines 54-55): the runner turns to the next test of the suite
startTest ==
    /\ upc = "running"
    /\ run_index < Len(test_ids_from_buffer)
    /\ run_index' = run_index + 1
    /\ UNCHANGED <<environ, upc, test_ids_from_buffer, formatted, callbacks, pipe_io, printed,
                   raised, run_error>>
    /\ UNCHANGED notUnit

\* An outcome callback for the running test: the recorder's method `method`
\* calls formatResult; an exception it raises unwinds the runner and is caught
\* by run_tests (line 204).  The framework may report several outcomes for
\* one test (sub-tests, a failing tearDown or cleanup after the test's own
\* outcome).
Callback(method, outcome, error, subtest) ==
    LET test == test_ids_from_buffer[run_index]
        r == formatResult(formatted, pipe_io, environ, test, outcome, error, subtest)
    IN /\ upc = "running"
       /\ run_index >= 1
       /\ Len(callbacks) < MaxCallbacks
       /\ callbacks' = Append(callbacks, [method |-> method, test |-> test, subtest |-> subtest])
       /\ formatted' = r.formatted
       /\ pipe_io' = r.io
       /\ printed' = printed \o r.printed
       /\ IF r.raise
          THEN /\ run_error' = <<"VSCodeUnittestError">>
               /\ upc' = "eot"
          ELSE UNCHANGED <<run_error, upc>>
       /\ UNCHANGED <<environ, test_ids_from_buffer, run_index, raised>>
       /\ UNCHANGED notUnit

\* lines 57-63
addError == \E err \in ErrorInfos \ {<<>>} : Callback("addError", "error", err, <<>>)

\* lines 65-71
addFailure == \E err \in ErrorInfos \ {<<>>} : Callback("addFailure", "failure", err, <<>>)

\* lines 73-75
addSuccess == Callback("addSuccess", "success", <<>>, <<>>)

\* lines 77-79
addSkip == Callback("addSkip", "skipped", <<>>, <<>>)

\* lines 81-83
addExpectedFailure ==
    \E err \in ErrorInfos \ {<<>>} :
        Callback("addExpectedFailure", "expected-failure", err, <<>>)

\* lines 85-87
addUnexpectedSuccess == Callback("addUnexpectedSuccess", "unexpected-success", <<>>, <<>>)

\* lines 89-101
addSubTest ==
    /\ upc = "running"
    /\ run_index >= 1
    /\ \E err \in ErrorInfos, d \in SubDescriptions :
          Callback("addSubTest",
                   IF err # <<>> THEN "subtest-failure" ELSE "subtest-success",
                   err, <<SubTestId(test_ids_from_buffer[run_index], d)>>)

\* run_tests, lines 200-215: the runner is through the suite
RunTestsReturn ==
    /\ upc = "running"
    /\ run_index = Len(test_ids_from_buffer)
    /\ upc' = "eot"
    /\ UNCHANGED <<environ, test_ids_from_buffer, run_index, formatted, callbacks, pipe_io,
                   printed, raised, run_error>>
    /\ UNCHANGED notUnit

\* __main__, lines 315-316
MainSendEOT ==
    /\ upc = "eot"
    /\ MainSend([command_type |-> "execution", eot |-> TRUE], "done")
    /\ UNCHANGED <<environ, test_ids_from_buffer, run_index, formatted, callbacks, printed,
                   run_error>>
    /\ UNCHANGED notUnit

UnitNext ==
    \/ MainNoIdsPipe \/ MainIdsPipeError \/ MainReadTestIds \/ MainReadEOF
    \/ MainNoTestIds \/ RunTestsStart \/ startTest
    \/ addError \/ addFailure \/ addSuccess \/ addSkip
    \/ addExpectedFailure \/ addUnexpectedSuccess \/ addSubTest
    \/ RunTestsReturn \/ MainSendEOT

\* ------------------------------------------------------ reporting client

\* Most calls of the post routines in one process.
MaxPosts == 2
\* Most items of a pytest session whose hooks are followed.
MaxSessionItems == 1

\* the default of os.getenv("TEST_PORT", 45454)
DefaultPort == 45454

\* values of TEST_PORT, as the characters of the string
PortTexts == {<<"5", "0", "0", "0">>, <<"a", "b", "c">>}

\* values of TEST_UUID
UuidTexts == {"uuid-1"}

Digits == <<"0", "1", "2", "3", "4", "5", "6", "7", "8", "9">>
IsDigit(c) == \E d \in 1..10 : Digits[d] = c
DigitValue(c) == (CHOOSE d \in 1..10 : Digits[d] = c) - 1

RECURSIVE DecimalValue(_)
\* the number a string of digits denotes
DecimalValue(chars) ==
    IF chars = <<>> THEN 0
    ELSE 10 * DecimalValue(SubSeq(chars, 1, Len(chars) - 1)) + DigitValue(chars[Len(chars)])

RECURSIVE Text(_)
\* the string made of the characters
Text(chars) == IF chars = <<>> THEN "" ELSE Head(chars) \o Text(Tail(chars))

\* os.getenv("TEST_PORT", 45454): the variable's string, or the int default
getenv_TEST_PORT(env) ==
    IF env.TEST_PORT = <<>> THEN [t |-> "int", n |-> DefaultPort]
    ELSE [t |-> "str", chars |-> env.TEST_PORT[1]]

\* int(testPort): the number, or nothing where Python raises ValueError
int(testPort) ==
    IF testPort.t = "int" THEN <<testPort.n>>
    ELSE IF testPort.chars # <<>> /\ \A i \in 1..Len(testPort.chars) : IsDigit(testPort.chars[i])
         THEN <<DecimalValue(testPort.chars)>>
         ELSE <<>>

\* f"{testPort}"
FormatPort(testPort) ==
    IF testPort.t = "int" THEN ToString(testPort.n) ELSE Text(testPort.chars)

\* f"{testuuid}" of os.getenv("TEST_UUID")
FormatUuid(env) == IF env.TEST_UUID = <<>> THEN "None" ELSE env.TEST_UUID[1]

\* Python values handed to the post routines
PyStr(str) == [t |-> "str", s |-> str]
PyNode(heap, root) == [t |-> "node", heap |-> heap, root |-> root]
PyDict(d) == [t |-> "dict", d |-> d]

RECURSIVE Unfold(_, _)
\* the nested JSON object of the (acyclic) tree below r
Unfold(heap, r) ==
    IF heap[r].type_ = "test" THEN heap[r]
    ELSE [heap[r] EXCEPT !.children =
            [i \in 1..Len(heap[r].children) |-> Unfold(heap, heap[r].children[i])]]

\* json.dumps detects a container that contains itself
Circular(heap, r) == \E n \in Closure(heap, {r}) : n \in Descendants(heap, n)

\* json.dumps(value): the JSON text (as the value it denotes), or nothing
\* where json.dumps raises ValueError("Circular reference detected")
json_dumps_value(v) ==
    IF v.t = "node"
    THEN IF Circular(v.heap, v.root) THEN <<>> ELSE <<Unfold(v.heap, v.root)>>
    ELSE <<v>>

\* what a `with SocketManager(addr) as s:` block around one sendall does to
\* the network: connect, write, close; a refused connection raises
Transmit(wire, port, request, up) ==
    IF up
    THEN [net |-> wire \o <<[op |-> "connect", port |-> port, ok |-> TRUE, request |-> <<>>],
                            [op |-> "send", port |-> port, ok |-> TRUE, request |-> <<request>>],
                            [op |-> "close", port |-> port, ok |-> TRUE, request |-> <<>>]>>,
          raise |-> <<>>]
    ELSE [net |-> Append(wire, [op |-> "connect", port |-> port, ok |-> FALSE, request |-> <<>>]),
          raise |-> <<"ConnectionRefusedError">>]

\* the request text of lines 354-360 / 379-385
Request(testPort, env, data) ==
    [host |-> "localhost:" \o FormatPort(testPort), uuid |-> FormatUuid(env), body |-> data]

\* execution_post whose first transmission drains the result map it is given
execution_post_Draining(wire, env, cwd, status, tests, up) ==
    LET testPort == getenv_TEST_PORT(env)
        dumped == json_dumps_value(IF wire = <<>> THEN tests ELSE PyDict(<<>>))
    IN IF int(testPort) = <<>> THEN [net |-> wire, raise |-> <<"ValueError: invalid literal for int()">>]
       ELSE IF dumped = <<>> THEN [net |-> wire, raise |-> <<"ValueError: Circular reference detected">>]
       ELSE Transmit(wire, int(testPort)[1],
                     Request(testPort, env, [cwd |-> cwd, status |-> status, result |-> dumped[1]]),
                     up)

\* execution_post(cwd, status, tests), lines 340-363
execution_post(wire, env, cwd, status, tests, up) ==
    LET testPort == getenv_TEST_PORT(env)
        dumped == json_dumps_value(tests)
    IN IF int(testPort) = <<>> THEN [net |-> wire, raise |-> <<"ValueError: invalid literal for int()">>]
       ELSE IF dumped = <<>> THEN [net |-> wire, raise |-> <<"ValueError: Circular reference detected">>]
       ELSE Transmit(wire, int(testPort)[1],
                     Request(testPort, env, [cwd |-> cwd, status |-> status, result |-> dumped[1]]),
                     up)

\* discovery_post(cwd, session_node), lines 366-388
discovery_post(wire, env, cwd, session_node, up) ==
    LET testPort == getenv_TEST_PORT(env)
        dumped == json_dumps_value(session_node)
    IN IF int(testPort) = <<>> THEN [net |-> wire, raise |-> <<"ValueError: invalid literal for int()">>]
       ELSE IF dumped = <<>> THEN [net |-> wire, raise |-> <<"ValueError: Circular reference detected">>]
       ELSE Transmit(wire, int(testPort)[1],
                     Request(testPort, env, [cwd |-> "cwd", status |-> "success", tests |-> dumped[1]]),
                     up)

\* sendPost(cwd, tests) of the draft plugin, lines 274-290: json.dumps runs
\* inside the with block, after the connection is made
sendPost(wire, env, cwd, tests, up) ==
    LET testPort == getenv_TEST_PORT(env)
        dumped == json_dumps_value(tests)
    IN IF int(testPort) = <<>> THEN [net |-> wire, raise |-> <<"ValueError: invalid literal for int()">>]
       ELSE IF ~up
            THEN [net |-> Append(wire, [op |-> "connect", port |-> int(testPort)[1], ok |-> FALSE,
                                        request |-> <<>>]),
                  raise |-> <<"ConnectionRefusedError">>]
       ELSE IF dumped = <<>>
            THEN [net |-> wire \o <<[op |-> "connect", port |-> int(testPort)[1], ok |-> TRUE,
                                     request |-> <<>>],
                                    [op |-> "close", port |-> int(testPort)[1], ok |-> TRUE,
                                     request |-> <<>>]>>,
                  raise |-> <<"ValueError: Circular reference detected">>]
       ELSE Transmit(wire, int(testPort)[1],
                     Request(testPort, env, [cwd |-> cwd, status |-> "success", tests |-> dumped[1]]),
                     up)

\* ----------------------------------------------------------- pytest hooks

\* os.getcwd()
PyCwd == "/w"

\* the sessions whose hooks are followed: files f.py in directories named a
SessionCases(i) ==
    {c \in CasesOf(ModulePaths({"a"}, {"f.py"}), i) : c.location = <<>> /\ c.parent.kind # "Other"}

RECURSIVE SessionsOfLen(_)
SessionsOfLen(n) ==
    IF n = 0 THEN {<<>>}
    ELSE {Append(its, c) : its \in SessionsOfLen(n - 1), c \in SessionCases(n)}

Sessions == UNION {SessionsOfLen(n) : n \in 0..MaxSessionItems}

\* pytest.ExitCode
ExitCode(n) ==
    [value |-> n,
     name |-> CASE n = 0 -> "OK" [] n = 1 -> "TESTS_FAILED" [] n = 2 -> "INTERRUPTED"
                [] n = 3 -> "INTERNAL_ERROR" [] n = 4 -> "USAGE_ERROR"
                [] n = 5 -> "NO_TESTS_COLLECTED"]

\* create_test_outcome, lines 49-65
create_test_outcome(test, outcome, message, duration, traceback) ==
    [test |-> test, outcome |-> outcome, message |-> message, duration |-> duration,
     traceback |-> traceback]

PyGlobals ==
    /\ collected_tests = <<>>
    /\ report_cursor = [index |-> 1, when |-> "setup"]
    /\ testsfailed = FALSE
    /\ ppc = "running"
    /\ net = <<>>
    /\ calls = <<>>
    /\ py_raised = <<>>

\* a pytest process: its environment, what it collected, and whether it runs
PyInit ==
    /\ os_environ \in [TEST_PORT : {<<>>} \cup {<<c>> : c \in PortTexts},
                       TEST_UUID : {<<>>} \cup {<<u>> : u \in UuidTexts}]
    /\ session_items \in Sessions
    /\ collectonly \in BOOLEAN
    /\ PyGlobals

\* a process in which only the post routines are called
ClientInit ==
    /\ os_environ \in [TEST_PORT : {<<>>} \cup {<<c>> : c \in PortTexts},
                       TEST_UUID : {<<>>} \cup {<<u>> : u \in UuidTexts}]
    /\ session_items = <<>>
    /\ collectonly = FALSE
    /\ PyGlobals

\* no pytest process
PyIdle ==
    /\ os_environ = [TEST_PORT |-> <<>>, TEST_UUID |-> <<>>]
    /\ session_items = <<>>
    /\ collectonly = FALSE
    /\ PyGlobals

\* the record kept of one call of a post routine: its arguments and the
\* number of network events it caused
Call(routine, cwd, status, arg, r) ==
    [routine |-> routine, cwd |-> cwd, status |-> status, arg |-> arg,
     events |-> Len(r.net) - Len(net), raise |-> r.raise]

\* pytest_report_teststatus(report, config), lines 75-91.  The runner reports
\* setup, call (only after a passed setup) and teardown of each item in turn.
pytest_report_teststatus ==
    /\ ppc = "running"
    /\ ~collectonly
    /\ report_cursor.index <= Len(session_items)
    /\ \E result \in {"passed", "failed", "skipped"} :
          LET report == [nodeid |-> session_items[report_cursor.index].nodeid,
                         when |-> report_cursor.when,
                         passed |-> result = "passed", failed |-> result = "failed",
                         longreprtext |-> IF result = "passed" THEN "" ELSE "E " \o result,
                         duration |-> 0]
              report_value == IF report.passed THEN "success"
                              ELSE IF report.failed THEN "failure" ELSE "skipped"
          IN /\ (report.when = "teardown") => result # "skipped"
             /\ collected_tests' =
                   IF report.when = "call"
                   THEN Put(collected_tests, report.nodeid,
                            create_test_outcome(report.nodeid, report_value, report.longreprtext,
                                                report.duration, "traceback"))
                   ELSE collected_tests
             /\ testsfailed' = (testsfailed \/ report.failed)
             /\ report_cursor' =
                   IF report.when = "setup" /\ report.passed
                   THEN [report_cursor EXCEPT !.when = "call"]
                   ELSE IF report.when = "teardown"
                   THEN [index |-> report_cursor.index + 1, when |-> "setup"]
                   ELSE [report_cursor EXCEPT !.when = "teardown"]
    /\ UNCHANGED <<os_environ, session_items, collectonly, ppc, net, calls, py_raised>>
    /\ UNCHANGED notPy

\* the exit status of a session that ran to its end
NormalExit ==
    IF testsfailed THEN ExitCode(1)
    ELSE IF session_items = <<>> THEN ExitCode(5) ELSE ExitCode(0)

\* the exit statuses pytest can finish the session with in this state
ExitStatuses ==
    {ExitCode(2), ExitCode(3), ExitCode(4)}
    \cup (IF collectonly \/ report_cursor.index > Len(session_items) THEN {NormalExit} ELSE {})

\* pytest_sessionfinish(session, exitstatus), lines 93-109
pytest_sessionfinish ==
    /\ ppc = "running"
    /\ \E exitstatus \in ExitStatuses, up \in BOOLEAN :
          LET cwd == PyCwd
              session_node == PyNode(build_test_tree(session_items).nodes, 1)
              r == IF exitstatus.value = 0
                   THEN discovery_post(net, os_environ, cwd, session_node, up)
                   ELSE execution_post(net, os_environ, cwd, exitstatus.name,
                                       PyDict(collected_tests), up)
          IN /\ net' = r.net
             /\ py_raised' = r.raise
             /\ calls' = Append(calls,
                   IF exitstatus.value = 0
                   THEN Call("discovery_post", cwd, "", session_node, r)
                   ELSE Call("execution_post", cwd, exitstatus.name, PyDict(collected_tests), r))
    /\ ppc' = "finished"
    /\ UNCHANGED <<os_environ, session_items, collectonly, report_cursor, testsfailed,
                   collected_tests>>
    /\ UNCHANGED notPy

PytestNext == pytest_report_teststatus \/ pytest_sessionfinish

\* ------------------------------------------- the post routines on their own

\* the sessions whose trees are handed to the post routines: an empty one, one
\* test in a file of the session directory, one test under a/a
ClientSessions ==
    {<<>>}
    \cup {<<Item(Module(SessionPath \o dirs \o <<"f.py">>), TestName(1), <<>>, FALSE)>> :
             dirs \in {<<>>, <<"a", "a">>}}

\* the trees handed to the post routines
SessionNodes == {PyNode(build_test_tree(its).nodes, 1) : its \in ClientSessions}

\* the result maps handed to execution_post
ResultMaps ==
    {PyDict(<<>>),
     PyDict(<<[key |-> "f.py::t1",
               val |-> create_test_outcome("f.py::t1", "failure", "E failed", 0, "traceback")]>>)}

\* a call of sendPost(cwd, tests): with the string its caller passes (line 102)
\* or with a tree
SendPost ==
    /\ Len(calls) < MaxPosts
    /\ \E tests \in {PyStr("hello hello")} \cup SessionNodes, up \in BOOLEAN :
          LET r == sendPost(net, os_environ, PyCwd, tests, up)
          IN /\ net' = r.net
             /\ py_raised' = r.raise
             /\ calls' = Append(calls, Call("sendPost", PyCwd, "", tests, r))
    /\ UNCHANGED <<os_environ, session_items, collectonly, report_cursor, testsfailed,
                   collected_tests, ppc>>
    /\ UNCHANGED notPy

\* a call of execution_post(cwd, status, tests)
ExecutionPost ==
    /\ Len(calls) < MaxPosts
    /\ \E status \in {ExitCode(1).name, ExitCode(2).name}, tests \in ResultMaps, up \in BOOLEAN :
          LET r == execution_post(net, os_environ, PyCwd, status, tests, up)
          IN /\ net' = r.net
             /\ py_raised' = r.raise
             /\ calls' = Append(calls, Call("execution_post", PyCwd, status, tests, r))
    /\ UNCHANGED <<os_environ, session_items, collectonly, report_cursor, testsfailed,
                   collected_tests, ppc>>
    /\ UNCHANGED notPy

\* a call of discovery_post(cwd, session_node)
DiscoveryPost ==
    /\ Len(calls) < MaxPosts
    /\ \E session_node \in SessionNodes, up \in BOOLEAN :
          LET r == discovery_post(net, os_environ, PyCwd, session_node, up)
          IN /\ net' = r.net
             /\ py_raised' = r.raise
             /\ calls' = Append(calls, Call("discovery_post", PyCwd, "", session_node, r))
    /\ UNCHANGED <<os_environ, session_items, collectonly, report_cursor, testsfailed,
                   collected_tests, ppc>>
    /\ UNCHANGED notPy

ClientNext == SendPost \/ ExecutionPost \/ DiscoveryPost

\* ------------------------------------------- create_test_node on its own

\* Most calls of create_test_node followed.
MaxNodeCalls == 2

\* the 0-based line numbers the framework supplies in these calls
LineNumbers == {0, 8, 9, 10, 98, 99, 100}

\* the items create_test_node is called with as its i-th
NodeCases(i) ==
    {Item(par, TestName(i), loc, isDoc) :
        par \in FunctionParents(SessionPath \o <<"f.py">>),
        loc \in {<<>>} \cup {<<n>> : n \in LineNumbers},
        isDoc \in BOOLEAN}

\* the locals of a caller that only makes test nodes
TestNodeInit ==
    /\ items = <<>>
    /\ nodes = <<>>
    /\ file_nodes_dict = <<>>
    /\ class_nodes_dict = <<>>
    /\ created_files_folders_dict = <<>>
    /\ session_children_dict = <<>>
    /\ errors = <<>>
    /\ pc = "nodes"
    /\ file_index = 1

\* test_node = create_test_node(test_case), line 125
CreateTestNode ==
    /\ pc = "nodes"
    /\ Len(items) < MaxNodeCalls
    /\ \E test_case \in NodeCases(Len(items) + 1) :
          /\ items' = Append(items, test_case)
          /\ nodes' = Append(nodes, create_test_node(test_case))
    /\ UNCHANGED <<file_nodes_dict, class_nodes_dict, created_files_folders_dict,
                   session_children_dict, errors, pc, file_index>>
    /\ UNCHANGED notTree

\* ---------------------------------------------------------- specifications

InitTestNode == TestNodeInit /\ UnitIdle /\ PyIdle

\* create_test_node, called with every item within the bounds
SpecTestNode == InitTestNode /\ [][CreateTestNode]_vars

InitTree == TreeInit /\ UnitIdle /\ PyIdle

\* build_test_tree on every session within the bounds
SpecTree == InitTree /\ [][TreeNext]_vars

InitUnittest == TreeInit /\ UnitInit /\ PyIdle

\* one run of unittestadapter/execution.py
SpecUnittest == InitUnittest /\ [][UnitNext]_vars

InitPytest == TreeInit /\ UnitIdle /\ PyInit

\* one pytest session with the vscode_pytest plugin
SpecPytest == InitPytest /\ [][PytestNext]_vars

InitClient == TreeInit /\ UnitIdle /\ ClientInit

\* the post routines, called with every argument within the bounds
SpecClient == InitClient /\ [][ClientNext]_vars

\* ------------------------------------------------- the returned tree

\* the nodes of the returned tree
TreeNodes == Closure(nodes, {1})

\* the positions in the returned tree
TreePositions == Occurrences(nodes, 1, TreeFuel)

\* the positions at which the test item of a case sits
PositionsOfCase(test_case) ==
    {o \in TreePositions :
        /\ nodes[NodeAt(nodes, 1, o)].type_ = "test"
        /\ nodes[NodeAt(nodes, 1, o)].id_ = test_case.nodeid}

\* the positions at which node r sits
PositionsOfNode(r) == {o \in TreePositions : NodeAt(nodes, 1, o) = r}

\* the directory segments between the session root and a file
DirsOf(file_path) == SubSeq(file_path, Len(SessionPath) + 1, Len(file_path) - 1)

\* ----------------------------------------------------------------- claims

\* C1: for a non-empty sequence of cases, every case has exactly one test-item
\* occurrence in the returned tree, reachable from the session root.  (Stated
\* for the cases whose parent is a module or a class; a case with a malformed
\* parent chain is the subject of C11.)
C1_EveryCaseExactlyOnce ==
    (pc = "done" /\ items # <<>>) =>
        \A i \in 1..Len(items) :
            items[i].parent.kind # "Other" => Cardinality(PositionsOfCase(items[i])) = 1

\* C2: in the returned tree no node has two children with the same identifier.
C2_NoDuplicateChildren ==
    pc = "done" =>
        \A r \in TreeNodes :
            \A i, j \in 1..Len(ChildrenOf(nodes, r)) :
                i # j => nodes[ChildrenOf(nodes, r)[i]].id_ # nodes[ChildrenOf(nodes, r)[j]].id_

\* C3: the returned structure is acyclic: no node is its own descendant.
C3_Acyclic ==
    pc = "done" => \A r \in TreeNodes : r \notin Descendants(nodes, r)

\* C4: two cases with the same class parent give exactly one class node, which
\* has both test items as children and occurs exactly once in the children of
\* exactly one file node.
C4_OneClassNodeOnce ==
    pc = "done" =>
        \A i, j \in 1..Len(items) :
            (i < j /\ items[i].parent.kind = "Class" /\ items[i].parent = items[j].parent) =>
                LET classes == {r \in TreeNodes : nodes[r].type_ = "class"
                                                  /\ nodes[r].id_ = items[i].parent.nodeid}
                    slots(c) == {<<f, k>> \in TreeNodes \X (1..(2 * MaxCases)) :
                                    /\ nodes[f].type_ \in {"file", "doc_file"}
                                    /\ k <= Len(nodes[f].children)
                                    /\ nodes[f].children[k] = c}
                IN /\ Cardinality(classes) = 1
                   /\ \A c \in classes :
                        /\ \A n \in {i, j} :
                              \E k \in 1..Len(nodes[c].children) :
                                  /\ nodes[nodes[c].children[k]].type_ = "test"
                                  /\ nodes[nodes[c].children[k]].id_ = items[n].nodeid
                        /\ Cardinality(slots(c)) = 1

\* C5: a file k directories below the session root is reached from the session
\* node through exactly k folder nodes, named for the directory segments in
\* filesystem order (for k = 0 it is a child of the session node).
C5_FolderAncestry ==
    pc = "done" =>
        \A e \in 1..Len(file_nodes_dict) :
            LET file == file_nodes_dict[e].val
                dirs == DirsOf(file_nodes_dict[e].key)
            IN /\ PositionsOfNode(file) # {}
               /\ \A o \in PositionsOfNode(file) :
                    /\ Len(o) = Len(dirs) + 1
                    /\ \A d \in 1..Len(dirs) :
                          /\ nodes[NodeAt(nodes, 1, SubSeq(o, 1, d))].type_ = "folder"
                          /\ nodes[NodeAt(nodes, 1, SubSeq(o, 1, d))].name = dirs[d]

\* C6: recording a sub-test outcome (addSubTest) leaves the entry stored under
\* the parent test's id as it was, and the sub-test's record is stored under
\* the sub-test's own id.
C6_SubTestKeepsParent ==
    [][(/\ Len(callbacks') = Len(callbacks) + 1
        /\ callbacks'[Len(callbacks')].method = "addSubTest")
       => LET c == callbacks'[Len(callbacks')]
          IN /\ Has(formatted, c.test) =>
                  (Has(formatted', c.test) /\ Get(formatted', c.test) = Get(formatted, c.test))
             /\ ~Has(formatted, c.test) => ~Has(formatted', c.test)
             /\ Has(formatted', c.subtest[1])
             /\ Get(formatted', c.subtest[1]).subtest = c.subtest
             /\ Get(formatted', c.subtest[1]).test = c.test
             /\ Get(formatted', c.subtest[1]).outcome \in {"subtest-success", "subtest-failure"}]_vars

\* C6 witness: a test's own failure was recorded, then a sub-test of it, and
\* both records are in the map.
C6_Witness ==
    \E i, j \in 1..Len(callbacks) :
        /\ i < j
        /\ callbacks[i].method = "addFailure"
        /\ callbacks[j].method = "addSubTest"
        /\ callbacks[i].test = callbacks[j].test
        /\ Has(formatted, callbacks[i].test)
        /\ Get(formatted, callbacks[i].test).outcome = "failure"
        /\ Has(formatted, callbacks[j].subtest[1])

\* the payloads the unittest adapter wrote to TEST_RUN_PIPE, in order
UnitSent == SelectSeq(pipe_io, LAMBDA e : e.op = "send")

\* an end-of-transmission payload
IsEOT(payload) == "eot" \in DOMAIN payload

\* C9: when RUN_TEST_IDS_PIPE or TEST_RUN_PIPE is absent, the unittest run does
\* no I/O at all: no pipe is opened or read, no test is run, no payload sent.
C9_FailFastBeforeIO ==
    (environ.RUN_TEST_IDS_PIPE = <<>> \/ environ.TEST_RUN_PIPE = <<>>) =>
        (pipe_io = <<>> /\ callbacks = <<>>)

\* C10: every discovery or execution envelope posted has status "success" or
\* "error" (stated here for the envelopes the unittest adapter sends).
C10_StatusSuccessOrError ==
    \A i \in 1..Len(UnitSent) :
        ~IsEOT(UnitSent[i].data) => UnitSent[i].data.status \in {"success", "error"}

\* the bodies the pytest reporting client wrote to the network, in order
PySent ==
    LET sends == SelectSeq(net, LAMBDA e : e.op = "send")
    IN [i \in 1..Len(sends) |-> sends[i].request[1].body]

\* every discovery or execution payload of the sequence is followed by an
\* end-of-transmission payload
EOTFollowsPayloads(sent) ==
    \A i \in 1..Len(sent) : ~IsEOT(sent[i]) => \E j \in (i + 1)..Len(sent) : IsEOT(sent[j])

\* no discovery or execution payload follows an end-of-transmission payload
NothingAfterEOT(sent) ==
    \A i, j \in 1..Len(sent) : (i < j /\ IsEOT(sent[i])) => IsEOT(sent[j])

\* C7: in every run an end-of-transmission payload is sent after the last
\* discovery or execution payload, and no such payload after it; for the
\* unittest adapter's __main__ and for the pytest plugin's session finish.
C7_EOTAfterLastPayload ==
    /\ NothingAfterEOT([i \in 1..Len(UnitSent) |-> UnitSent[i].data])
    /\ NothingAfterEOT(PySent)
    /\ upc \in {"done", "raised"} => EOTFollowsPayloads([i \in 1..Len(UnitSent) |-> UnitSent[i].data])
    /\ ppc = "finished" => EOTFollowsPayloads(PySent)

\* C8: a post routine whose payload cannot be serialized to JSON does no
\* network I/O: it opens no connection and writes nothing.
C8_NoIOWhenSerializationFails ==
    \A i \in 1..Len(calls) :
        calls[i].raise = <<"ValueError: Circular reference detected">> => calls[i].events = 0

\* the collected cases that cannot be placed in the tree: doc-test items whose
\* parent is not a module (line 127)
MalformedCases ==
    {i \in 1..Len(items) : items[i].doctest /\ items[i].parent.kind # "Module"}

\* C11: a case that cannot be placed in the tree (a doc-test item whose parent
\* is not a module) is skipped, and for each such case a human-readable string
\* is appended to the returned errors list.
C11_MalformedCaseReported ==
    pc = "done" =>
        /\ \A i \in MalformedCases : PositionsOfCase(items[i]) = {}
        /\ Len(errors) >= Cardinality(MalformedCases)

RECURSIVE Decimal(_)
\* the decimal numeral of a natural number
Decimal(n) ==
    IF n < 10 THEN Digits[n + 1] ELSE Decimal(n \div 10) \o Digits[(n % 10) + 1]

\* C12: the test item made for a case has lineno equal to the decimal string
\* of (line number + 1) when the framework supplies a line number, and the
\* empty string when it does not.
C12_LinenoIsLinePlusOne ==
    \A i \in 1..Len(items) :
        \A r \in 1..Len(nodes) :
            (nodes[r].type_ = "test" /\ nodes[r].id_ = items[i].nodeid) =>
                nodes[r].lineno = IF items[i].location = <<>> THEN ""
                                  ELSE Decimal(items[i].location[1] + 1)

\* a case on line 9 got lineno "10", and a case without a line number got ""
C12_Witness ==
    /\ pc = "nodes"
    /\ \E i, j \in 1..Len(items) :
          /\ items[i].location = <<9>> /\ nodes[i].lineno = "10"
          /\ items[j].location = <<>> /\ nodes[j].lineno = ""

\* the port the client is to target in this environment: the value of
\* TEST_PORT where it is a decimal number, and the default otherwise
TargetPort ==
    IF os_environ.TEST_PORT # <<>>
       /\ os_environ.TEST_PORT[1] # <<>>
       /\ \A k \in 1..Len(os_environ.TEST_PORT[1]) : IsDigit(os_environ.TEST_PORT[1][k])
    THEN DecimalValue(os_environ.TEST_PORT[1])
    ELSE DefaultPort

\* C13: execution_post and discovery_post target port 45454 when TEST_PORT is
\* unset or cannot be parsed as a port number, and the parsed value otherwise:
\* no call fails on the value of TEST_PORT, and every connection made goes to
\* that port.
C13_PortDefaultsTo45454 ==
    /\ \A k \in 1..Len(net) : net[k].port = TargetPort
    /\ \A i \in 1..Len(calls) :
          calls[i].routine \in {"execution_post", "discovery_post"} =>
              calls[i].raise # <<"ValueError: invalid literal for int()">>

RECURSIVE EventsBefore(_)
\* the number of network events caused by the calls before the i-th
EventsBefore(i) == IF i = 1 THEN 0 ELSE EventsBefore(i - 1) + calls[i - 1].events

\* the network events the i-th call of a post routine caused
CallEvents(i) == SubSeq(net, EventsBefore(i) + 1, EventsBefore(i) + calls[i].events)

\* the i-th and the j-th call post the same envelope, and both return normally
SameEnvelopePosted(i, j) ==
    /\ i < j
    /\ calls[i].routine \in {"execution_post", "discovery_post"}
    /\ calls[i].routine = calls[j].routine
    /\ calls[i].cwd = calls[j].cwd
    /\ calls[i].status = calls[j].status
    /\ calls[i].arg = calls[j].arg
    /\ calls[i].raise = <<>>
    /\ calls[j].raise = <<>>

\* one connection of its own, carrying one request
OneTransmission(events) ==
    /\ Len(events) = 3
    /\ events[1].op = "connect" /\ events[1].ok
    /\ events[2].op = "send"
    /\ events[3].op = "close"

C15_ExecutionPostedAtFinish ==
    (ppc = "finished" /\ collected_tests # <<>>) =>
        \E i \in 1..Len(calls) :
            /\ calls[i].routine = "execution_post"
            /\ calls[i].arg = PyDict(collected_tests)

\* the file nodes of the returned tree that have node r among their children
FilesHolding(r) ==
    {f \in TreeNodes : /\ nodes[f].type_ \in {"file", "doc_file"}
                       /\ IsChild(nodes, f, r)}

\* C16: each class node of the returned tree is a child of exactly one file
\* node, the file of the class's module, and its children are exactly the test
\* items of the cases whose parent is that class; also when classes in
\* different files have the same name.
C16_ClassUnderItsOwnFile ==
    pc = "done" =>
        \A r \in TreeNodes :
            nodes[r].type_ = "class" =>
                /\ Cardinality(FilesHolding(r)) = 1
                /\ \A f \in FilesHolding(r) : nodes[f].path = nodes[r].path
                /\ {nodes[ChildrenOf(nodes, r)[k]].id_ : k \in 1..Len(ChildrenOf(nodes, r))}
                   = {items[i].nodeid : i \in {n \in 1..Len(items) :
                                                  /\ items[n].parent.kind = "Class"
                                                  /\ items[n].parent.nodeid = nodes[r].id_}}

\* the execution payloads the outcome callbacks wrote to TEST_RUN_PIPE, in order
OutcomePayloads ==
    LET sent == SelectSeq(UnitSent, LAMBDA e : /\ "result" \in DOMAIN e.data
                                               /\ "error" \notin DOMAIN e.data)
    IN [k \in 1..Len(sent) |-> sent[k].data]

\* the key the recorder uses for the k-th callback: sub-test id, else test id
RecorderKey(k) ==
    IF callbacks[k].subtest # <<>> THEN callbacks[k].subtest[1] ELSE callbacks[k].test

\* C17: with TEST_RUN_PIPE set, every outcome callback has sent exactly one
\* execution payload by the time it returns; the payloads are in the order of
\* the callbacks, and each result map has exactly one entry, under the key the
\* recorder used for that callback.
C17_OnePayloadPerCallback ==
    environ.TEST_RUN_PIPE # <<>> =>
        /\ Len(OutcomePayloads) = Len(callbacks)
        /\ \A k \in 1..Len(callbacks) :
              /\ Len(OutcomePayloads[k].result) = 1
              /\ OutcomePayloads[k].result[1].key = RecorderKey(k)
              /\ OutcomePayloads[k].result[1].val.test = callbacks[k].test
              /\ Has(formatted, RecorderKey(k))

\* a run with TEST_RUN_PIPE set in which a sub-test callback and a test's own
\* callback were made, and which has ended
C17_Witness ==
    /\ environ.TEST_RUN_PIPE # <<>>
    /\ upc = "done"
    /\ \E a, b \in 1..Len(callbacks) :
          /\ callbacks[a].method = "addSubTest"
          /\ callbacks[b].method = "addFailure"
    /\ Len(OutcomePayloads) >= 2

\* C18: the discovery payload discovery_post(cwd, session_node) sends has its
\* cwd field equal to the cwd argument and its tests field equal to the
\* session node passed in.
C18_DiscoveryPayloadFields ==
    \A i \in 1..Len(calls) :
        (calls[i].routine = "discovery_post" /\ calls[i].raise = <<>>) =>
            /\ CallEvents(i)[2].request[1].body.cwd = calls[i].cwd
            /\ <<CallEvents(i)[2].request[1].body.tests>> = json_dumps_value(calls[i].arg)

====
